---- MODULE Spec2Model ----
(***************************************************************************)
(* Lifecycle callbacks of the exoscale_network resource (Create, Read,     *)
(* Exists, Update, Delete), modelled handler by handler against a remote   *)
(* API whose answers are nondeterministic.                                 *)
(*                                                                         *)
(* A handler runs to completion on one thread, so each handler is one      *)
(* action.  The answers of the remote API that the handler consumes are    *)
(* the action's inputs.  The host builds the state record (desired         *)
(* attributes, prior state) before it invokes Create or Update: that step  *)
(* is PlanCreate / PlanUpdate.                                             *)
(***************************************************************************)
EXTENDS Integers, Sequences, FiniteSets, TLC

\* ---------------------------------------------------------------- bounds
NumIds == 1      \* identifiers the remote API can hand out
NumZones == 2    \* zones of the zone listing
MaxListing == 3  \* objects a listing of the remote API returns

UUIDs == 1..NumIds
\* a zone is its number: the number is both its name and its identifier
Zones == 1..NumZones

\* ------------------------------------------------------- attribute values
Names == {"a"}
DisplayTexts == {"", "x"}
IPTexts == {"", "10.0.0.1"}
AgNames == {"g", "h"}
TagKeys == {"k"}
TagVals == {"1", "2"}
\* a tag map is a set of <<key, value>> pairs with distinct keys
TagMaps == {t \in SUBSET (TagKeys \X TagVals) :
              \A p \in t, r \in t : p[1] = r[1] => p = r}
TagKeysOf(t) == {p[1] : p \in t}

\* ------------------------------------------------------------ conversions
\* An identifier string is <<form, uuid>>: the empty string, the canonical
\* lower-case spelling of a UUID, another accepted spelling of the same
\* UUID (upper case), or a string that is no UUID.
NoId == <<"empty", 0>>
BadId == <<"bad", 0>>
\* egoscale.ParseUUID: 0 stands for the parse error
ParseUUID(s) == IF s[1] \in {"canon", "upper"} THEN s[2] ELSE 0
\* UUID.String(): always the canonical spelling
UUIDString(u) == <<"canon", u>>

\* net.ParseIP: "nil" for the empty string, else the address value
ParseIP(s) == IF s = "" THEN "nil" ELSE "addr"
\* net.IP.String()
IPString(ip) == IF ip = "nil" THEN "<nil>" ELSE "10.0.0.1"

\* --------------------------------------------------------------- records
EmptyDs == [rid |-> NoId, zone |-> 0, id |-> NoId, name |-> "",
            description |-> "", start_ip |-> "", end_ip |-> "", netmask |-> ""]
NoQuery == [kind |-> "", zone |-> 0, id |-> NoId, name |-> ""]

EmptyAg == [id |-> NoId, name |-> "", description |-> "", type |-> "",
            virtual_machine_ids |-> {}]

EmptyD == [id |-> NoId, name |-> "", display_text |-> "", zone |-> 0,
           start_ip |-> "", end_ip |-> "", netmask |-> "", tags |-> {}]

VARIABLES
  d,         \* the state record handed to the network handlers
  prior,     \* the prior state the record carries during Update (GetChange)
  networks,  \* remote networks: UUID -> network
  op,        \* the last step taken
  res,       \* what the last handler returned
  reqs,      \* the requests the last handler issued, in order, with answers
  fresh,     \* "created" right after a successful Create, "read" after a
             \* successful Read that directly followed it; "imported" right
             \* after an Import, "importread" after a successful Read that
             \* directly followed it; else "none"
  ag,        \* the state record handed to the anti-affinity group handlers
  groups,    \* remote anti-affinity groups: UUID -> group
  dsQuery,   \* the configuration of the data source being read
  ds,        \* the state record handed to the data source's Read
  listing,   \* the remote networks of the queried zone, as the API lists them
  domains    \* the remote DNS domains, as the API lists them

dsvars == <<dsQuery, ds, listing, domains>>
vars == <<d, prior, networks, op, res, reqs, fresh, ag, groups, dsQuery, ds, listing, domains>>

Req(t, z, a) == [type |-> t, zone |-> z, ans |-> a]

\* the handler o returned r
NextFresh(o, r) ==
  IF o \in {"Create", "AffinityCreate"} /\ r = "ok" THEN "created"
  ELSE IF o \in {"Read", "AffinityRead"} /\ r = "ok" /\ fresh = "created" THEN "read"
  ELSE IF o = "Read" /\ r = "ok" /\ fresh = "imported" THEN "importread"
  ELSE "none"

Out(dd, nets, r, q) == [d |-> dd, nets |-> nets, res |-> r, reqs |-> q]

\* The handler returns: the record, the remote and the result it leaves.
Return(o, out) ==
  /\ d' = out.d
  /\ networks' = out.nets
  /\ res' = out.res
  /\ reqs' = out.reqs
  /\ op' = o
  /\ fresh' = NextFresh(o, out.res)
  /\ prior' = EmptyD
  /\ UNCHANGED <<dsvars, ag, groups>>

\* ------------------------------------------------------------ remote API
\* Answers of the remote API.  "apierr" is an error response with a code
\* other than parameter-error and not-found; "neterr" is an error that is
\* no error response (the context's deadline, a transport failure).  A
\* failed call returns no response (nil) next to its error.
ListZonesAnswers == {"ok", "apierr"}
AbsentAnswers == {"empty", "param", "notfound", "apierr", "neterr"}
PresentAnswers == {"found", "apierr", "neterr"}

Holds(nets, u, z) == u \in DOMAIN nets /\ nets[u].zone = z

\* The answers of the zones to ListNetworks{ID: u, ZoneID: z}, for the zones
\* z, z+1, ... in listing order: one answer per zone queried.  A zone that
\* holds the network answers with it or fails; a zone that does not answers
\* in one of the absent ways or fails.  The search goes on to the next zone
\* after "param" and "empty" only, so a run ends with the first other answer.
RECURSIVE AnswerRuns(_, _, _)
AnswerRuns(nets, u, z) ==
  IF z > NumZones THEN {<<>>}
  ELSE UNION {IF a \in {"param", "empty"}
                THEN {<<a>> \o r : r \in AnswerRuns(nets, u, z + 1)}
                ELSE {<<a>>} :
              a \in (IF Holds(nets, u, z) THEN PresentAnswers ELSE AbsentAnswers)}

ZoneAnswers(nets, u) == AnswerRuns(nets, u, 1)

\* getZoneByName: the zone listing is fetched and scanned for the name; lz
\* is the remote's answer to ListZones.  id is the zone's identifier.
getZoneByName(zoneName, lz) ==
  IF lz # "ok" THEN [res |-> lz, id |-> 0]
  ELSE IF \E z \in Zones : z = zoneName THEN [res |-> "ok", id |-> zoneName]
  ELSE [res |-> "zoneNotFound", id |-> 0]

\* the remote's effect of CreateNetwork
RemoteCreate(nets, u, rq) ==
  [x \in DOMAIN nets \cup {u} |->
     IF x = u THEN [name |-> rq.name, displayText |-> rq.displayText,
                    zone |-> rq.zone, startIP |-> rq.startIP,
                    endIP |-> rq.endIP, netmask |-> rq.netmask, tags |-> {}]
     ELSE nets[x]]

\* the remote's effect of CreateTags / an update of tags: the given keys
\* take the given values, the other tags stay
RemoteTag(nets, u, t) ==
  [nets EXCEPT ![u].tags = {p \in @ : p[1] \notin TagKeysOf(t)} \cup t]

\* the remote's effect of DeleteNetwork
RemoteDelete(nets, u) == [x \in DOMAIN nets \ {u} |-> nets[x]]

\* the remote's effect of UpdateNetwork: an omitted field stays
RemoteUpdate(nets, u, rq) ==
  [nets EXCEPT ![u] =
     [@ EXCEPT !.name = IF rq.name = "" THEN @ ELSE rq.name,
               !.displayText = IF rq.displayText = "" THEN @ ELSE rq.displayText,
               !.startIP = IF rq.startIP = "nil" THEN @ ELSE rq.startIP,
               !.endIP = IF rq.endIP = "nil" THEN @ ELSE rq.endIP,
               !.netmask = IF rq.netmask = "nil" THEN @ ELSE rq.netmask]]

\* ------------------------------------------------- resourceNetworkApply
\* an Apply that leaves the record's zone as it finds it
resourceNetworkApplyKeepsZone(dd, u, n) ==
  LET all == n.startIP # "nil" /\ n.endIP # "nil" /\ n.netmask # "nil" IN
  [id |-> UUIDString(u),
   name |-> n.name,
   display_text |-> n.displayText,
   zone |-> dd.zone,
   start_ip |-> IF all THEN IPString(n.startIP) ELSE "",
   end_ip |-> IF all THEN IPString(n.endIP) ELSE "",
   netmask |-> IF all THEN IPString(n.netmask) ELSE "",
   tags |-> n.tags]

resourceNetworkApply(dd, u, n) ==
  LET all == n.startIP # "nil" /\ n.endIP # "nil" /\ n.netmask # "nil" IN
  [id |-> UUIDString(u),
   name |-> n.name,
   display_text |-> n.displayText,
   zone |-> n.zone,
   start_ip |-> IF all THEN IPString(n.startIP) ELSE "",
   end_ip |-> IF all THEN IPString(n.endIP) ELSE "",
   netmask |-> IF all THEN IPString(n.netmask) ELSE "",
   tags |-> n.tags]

\* -------------------------------------------------- resourceNetworkFind
\* a loop that returns the parameter error of a zone instead of skipping it
RECURSIVE FindLoopParamFails(_, _, _, _, _)
FindLoopParamFails(nets, u, zr, z, q) ==
  IF z > NumZones THEN [res |-> "notfound", reqs |-> q, found |-> 0]
  ELSE LET q2 == Append(q, Req("listNetworks", z, zr[z])) IN
       CASE zr[z] \in {"param", "apierr"} -> [res |-> "apierr", reqs |-> q2, found |-> 0]
         [] zr[z] \in {"notfound", "neterr"} ->
              [res |-> "panic", reqs |-> q2, found |-> 0]
         [] zr[z] = "found" -> [res |-> "ok", reqs |-> q2, found |-> u]
         [] OTHER -> FindLoopParamFails(nets, u, zr, z + 1, q2)

\* The loop over the zones, from zone z on.  found is the UUID of the
\* network of the returned response, 0 when an error is returned.
RECURSIVE FindLoop(_, _, _, _, _)
FindLoop(nets, u, zr, z, q) ==
  IF z > NumZones THEN [res |-> "notfound", reqs |-> q, found |-> 0]
  ELSE LET q2 == Append(q, Req("listNetworks", z, zr[z])) IN
       CASE zr[z] = "param" -> FindLoop(nets, u, zr, z + 1, q2)
         [] zr[z] = "apierr" -> [res |-> "apierr", reqs |-> q2, found |-> 0]
         \* a not-found response or an error that is no error response:
         \* neither branch returns, and resp (nil) is type-asserted
         [] zr[z] \in {"notfound", "neterr"} ->
              [res |-> "panic", reqs |-> q2, found |-> 0]
         [] zr[z] = "found" -> [res |-> "ok", reqs |-> q2, found |-> u]
         [] OTHER -> FindLoop(nets, u, zr, z + 1, q2)

resourceNetworkFind(dd, nets, lz, zr, q) ==
  LET u == ParseUUID(dd.id)
      q1 == Append(q, Req("listZones", 0, lz)) IN
  IF u = 0 THEN [res |-> "panic", reqs |-> q, found |-> 0]
  ELSE IF lz # "ok" THEN [res |-> lz, reqs |-> q1, found |-> 0]
  ELSE FindLoop(nets, u, zr, 1, q1)

\* -------------------------------------------------- resourceNetworkRead
resourceNetworkRead(dd, nets, lz, zr, q) ==
  LET f == resourceNetworkFind(dd, nets, lz, zr, q) IN
  IF f.res # "ok" THEN Out(dd, nets, f.res, f.reqs)
  ELSE Out(resourceNetworkApply(dd, f.found, nets[f.found]), nets, "ok", f.reqs)

\* ------------------------------------------------ resourceNetworkExists
resourceNetworkExists(dd, nets, lz, zr) ==
  LET f == resourceNetworkFind(dd, nets, lz, zr, <<>>) IN
  IF f.res = "notfound" THEN Out(dd, nets, "false", f.reqs)
  ELSE IF f.res # "ok" THEN Out(dd, nets, f.res, f.reqs)
  ELSE Out(dd, nets, "true", f.reqs)

\* ------------------------------------------------ resourceNetworkCreate
\* the check without its netmask branch
ValidateRangeNoNetmask(dd) ==
  IF (ParseIP(dd.start_ip) = "nil") # (ParseIP(dd.end_ip) = "nil")
    THEN "errStartEnd"
  ELSE "ok"

\* lines 114-121: the cross-field check on the parsed addresses
ValidateRange(dd) ==
  LET startIP == ParseIP(dd.start_ip)
      endIP == ParseIP(dd.end_ip)
      netmask == ParseIP(dd.netmask) IN
  IF (startIP = "nil" /\ endIP # "nil") \/ (startIP # "nil" /\ endIP = "nil")
    THEN "errStartEnd"
  ELSE IF (startIP # "nil" /\ endIP # "nil") /\ netmask = "nil"
    THEN "errNetmask"
  ELSE "ok"

\* lines 102-106, 123-130: the CreateNetwork request
CreateNetworkRequest(dd, zoneID) ==
  [name |-> dd.name,
   displayText |-> IF dd.display_text = "" THEN dd.name ELSE dd.display_text,
   zone |-> zoneID,
   startIP |-> ParseIP(dd.start_ip),
   endIP |-> ParseIP(dd.end_ip),
   netmask |-> ParseIP(dd.netmask)]

\* createTags: a CreateTags command when the record has tags, else none
createTags(dd) == IF dd.tags = {} THEN "nil" ELSE "cmd"

\* the cleanup that returns the error of its own delete request
TagCleanupEscalates(dd, nets, u, q, tr, dr) ==
  Out(dd,
      IF dr = "ok" THEN RemoteDelete(nets, u) ELSE nets,
      IF dr = "ok" THEN tr ELSE dr,
      Append(q, Req("deleteNetwork", 0, dr)))

\* lines 145-158: the tag request failed with tr; the network is deleted,
\* the answer dr of that request is only logged, and tr is returned
TagCleanup(dd, nets, u, q, tr, dr) ==
  Out(dd,
      IF dr = "ok" THEN RemoteDelete(nets, u) ELSE nets,
      tr,
      Append(q, Req("deleteNetwork", 0, dr)))

\* a Create that returns without reading the network back
CreateWithoutRead(dd, nets, lz, zr, q) == Out(dd, nets, "ok", q)

\* line 165: Create ends with Read
CreatePostRead(dd, nets, lz, zr, q) == resourceNetworkRead(dd, nets, lz, zr, q)

\* the host builds the record of a new resource from the configuration
PlanCreate ==
  /\ d.id = NoId
  /\ ag.id = NoId
  /\ op # "PlanCreate"
  /\ \E n \in Names, dt \in DisplayTexts, z \in Zones \cup {0},
        s \in IPTexts, e \in IPTexts, m \in IPTexts, t \in TagMaps :
       d' = [id |-> NoId, name |-> n, display_text |-> dt, zone |-> z,
             start_ip |-> s, end_ip |-> e, netmask |-> m, tags |-> t]
  /\ op' = "PlanCreate"
  /\ res' = ""
  /\ reqs' = <<>>
  /\ fresh' = "none"
  \* one resource is driven at a time: a record that was left without an
  \* identifier is gone from the host's state
  /\ ag' = EmptyAg
  /\ UNCHANGED <<dsvars, prior, networks, groups>>

ReadStep(o, dd, nets, q) ==
  \E lz \in ListZonesAnswers, zr \in ZoneAnswers(nets, ParseUUID(dd.id)) :
    Return(o, CreatePostRead(dd, nets, lz, zr, q))

Create ==
  /\ op = "PlanCreate"
  /\ \E lz \in ListZonesAnswers :
       LET q1 == <<Req("listZones", 0, lz)>>
           zone == getZoneByName(d.zone, lz) IN
       IF zone.res # "ok" THEN Return("Create", Out(d, networks, zone.res, q1))
       ELSE IF ValidateRange(d) # "ok"
         THEN Return("Create", Out(d, networks, ValidateRange(d), q1))
       ELSE \E cr \in {0} \cup (UUIDs \ DOMAIN networks) :
         LET q2 == Append(q1, Req("createNetwork", zone.id,
                                  IF cr = 0 THEN "apierr" ELSE "ok")) IN
         IF cr = 0 THEN Return("Create", Out(d, networks, "apierr", q2))
         ELSE LET d2 == [d EXCEPT !.id = UUIDString(cr)]
                  n2 == RemoteCreate(networks, cr, CreateNetworkRequest(d, zone.id)) IN
              IF createTags(d2) = "nil" THEN ReadStep("Create", d2, n2, q2)
              ELSE \E tr \in {"ok", "tagerr"} :
                LET q3 == Append(q2, Req("createTags", 0, tr)) IN
                IF tr # "ok"
                  THEN \E dr \in {"ok", "apierr"} :
                         Return("Create", TagCleanup(d2, n2, cr, q3, tr, dr))
                ELSE ReadStep("Create", d2, RemoteTag(n2, cr, d2.tags), q3)

Read ==
  /\ d.id # NoId
  /\ op \notin {"PlanCreate", "PlanUpdate"}
  /\ \E lz \in ListZonesAnswers, zr \in ZoneAnswers(networks, ParseUUID(d.id)) :
       Return("Read", resourceNetworkRead(d, networks, lz, zr, <<>>))

Exists ==
  /\ d.id # NoId
  /\ op \notin {"PlanCreate", "PlanUpdate"}
  /\ \E lz \in ListZonesAnswers, zr \in ZoneAnswers(networks, ParseUUID(d.id)) :
       LET out == resourceNetworkExists(d, networks, lz, zr) IN
       \* a resource that does not exist leaves the host's state
       Return("Exists", IF out.res = "false"
                          THEN [out EXCEPT !.d = EmptyD] ELSE out)

\* ------------------------------------------------ resourceNetworkUpdate
\* the check that looks at start_ip only
RangeClearedStartOnly(pr, dd) ==
  IF pr.start_ip # "" /\ dd.start_ip = "" THEN "start_ip" ELSE ""

\* lines 258-265: the key whose old value is non-empty and whose new value
\* is empty, "" when there is none
RangeCleared(pr, dd) ==
  IF pr.start_ip # dd.start_ip \/ pr.end_ip # dd.end_ip
    THEN IF pr.start_ip # "" /\ dd.start_ip = "" THEN "start_ip"
         ELSE IF pr.end_ip # "" /\ dd.end_ip = "" THEN "end_ip"
         ELSE ""
  ELSE ""

TagRequest(t, tg) ==
  [type |-> t, tags |-> tg, name |-> "", displayText |-> "",
   startIP |-> "nil", endIP |-> "nil", netmask |-> "nil"]

\* updateTags: the diff of the old and the new tags as requests; a missing
\* key is created, a changed value is updated, nothing is deleted
updateTags(old, new) ==
  LET create == {p \in new : p[1] \notin TagKeysOf(old)}
      update == {p \in new : p[1] \in TagKeysOf(old) /\ p \notin old} IN
  (IF create = {} THEN <<>> ELSE <<TagRequest("createTags", create)>>)
  \o (IF update = {} THEN <<>> ELSE <<TagRequest("updateTags", update)>>)

\* lines 268-275: the UpdateNetwork request
UpdateNetworkRequest(dd) ==
  [type |-> "updateNetwork", tags |-> {},
   name |-> dd.name,
   displayText |-> dd.display_text,
   startIP |-> ParseIP(dd.start_ip),
   endIP |-> ParseIP(dd.end_ip),
   netmask |-> ParseIP(dd.netmask)]

\* an Update that puts the UpdateNetwork request ahead of the tag requests
UpdateRequestsNetworkFirst(pr, dd) ==
  <<UpdateNetworkRequest(dd)>> \o updateTags(pr.tags, dd.tags)

\* an Update that forgets the tag requests
UpdateRequestsWithoutTags(pr, dd) == <<UpdateNetworkRequest(dd)>>

\* lines 278-283: the tag requests, then the UpdateNetwork request
UpdateRequests(pr, dd) ==
  Append(updateTags(pr.tags, dd.tags), UpdateNetworkRequest(dd))

RemoteApply(nets, u, rq) ==
  IF rq.type = "updateNetwork" THEN RemoteUpdate(nets, u, rq)
  ELSE RemoteTag(nets, u, rq.tags)

\* lines 285-290: the requests are issued in order; request failAt fails
\* (0: none does) and ends the loop
RECURSIVE IssueRequests(_, _, _, _, _, _)
IssueRequests(nets, u, rqs, i, failAt, q) ==
  IF i > Len(rqs) THEN [nets |-> nets, res |-> "ok", reqs |-> q]
  ELSE IF i = failAt
    THEN [nets |-> nets, res |-> "apierr",
          reqs |-> Append(q, Req(rqs[i].type, 0, "apierr"))]
  ELSE IssueRequests(RemoteApply(nets, u, rqs[i]), u, rqs, i + 1, failAt,
                     Append(q, Req(rqs[i].type, 0, "ok")))

\* an Update that reads the network back into a record without identifier
UpdateReadDropsId(dd, nets, lz, zr, q) ==
  LET out == resourceNetworkRead(dd, nets, lz, zr, q) IN
  IF out.res = "ok" THEN [out EXCEPT !.d.id = NoId] ELSE out

\* line 296: Update ends with Read
UpdatePostRead(dd, nets, lz, zr, q) == resourceNetworkRead(dd, nets, lz, zr, q)

\* the host hands Update a record that carries the prior state and the new
\* attributes; the prior state is the one the last refresh produced
PlanUpdate ==
  /\ op \in {"Create", "Read", "Update"}
  /\ res = "ok"
  /\ \E n \in Names, dt \in {d.display_text} \cup (DisplayTexts \ {""}),
        s \in IPTexts, e \in IPTexts, m \in IPTexts, t \in TagMaps :
       /\ d' = [d EXCEPT !.name = n, !.display_text = dt, !.start_ip = s,
                         !.end_ip = e, !.netmask = m, !.tags = t]
       /\ d' # d
  /\ prior' = d
  /\ op' = "PlanUpdate"
  /\ res' = ""
  /\ reqs' = <<>>
  /\ fresh' = "none"
  /\ UNCHANGED <<dsvars, networks, ag, groups>>

Update ==
  /\ op = "PlanUpdate"
  /\ LET u == ParseUUID(d.id)
         rqs == UpdateRequests(prior, d) IN
     IF u = 0 THEN Return("Update", Out(d, networks, "errUUID", <<>>))
     ELSE IF RangeCleared(prior, d) # ""
       THEN Return("Update", Out(d, networks, "errCannotEmpty", <<>>))
     ELSE \E failAt \in (IF u \in DOMAIN networks THEN 0..Len(rqs) ELSE {1}) :
       LET r == IssueRequests(networks, u, rqs, 1, failAt, <<>>) IN
       IF r.res # "ok" THEN Return("Update", Out(d, r.nets, r.res, r.reqs))
       ELSE \E lz \in ListZonesAnswers, zr \in ZoneAnswers(r.nets, u) :
              Return("Update", UpdatePostRead(d, r.nets, lz, zr, r.reqs))

\* ------------------------------------------------ resourceNetworkDelete
\* ans is the remote's answer to DeleteNetwork
resourceNetworkDelete(dd, nets, ans) ==
  LET u == ParseUUID(dd.id) IN
  IF u = 0 THEN Out(dd, nets, "errUUID", <<>>)
  ELSE IF ans # "ok" THEN Out(dd, nets, ans, <<Req("deleteNetwork", 0, ans)>>)
  ELSE Out(dd, RemoteDelete(nets, u), "ok", <<Req("deleteNetwork", 0, ans)>>)

\* what the remote may answer to DeleteNetwork{ID: u}
DeleteAnswers(nets, u) ==
  IF u \in DOMAIN nets THEN {"ok", "apierr"} ELSE {"notfound", "apierr"}

Delete ==
  /\ d.id # NoId
  /\ op \notin {"PlanCreate", "PlanUpdate"}
  /\ \E ans \in DeleteAnswers(networks, ParseUUID(d.id)) :
       LET out == resourceNetworkDelete(d, networks, ans) IN
       \* the host drops the record of a deleted resource
       Return("Delete", IF out.res = "ok" THEN [out EXCEPT !.d = EmptyD] ELSE out)

\* ----------------------------------------------------------------- Importer
\* schema.ImportStatePassthroughContext: the imported record holds the
\* identifier the user typed, in any spelling of the UUID, and nothing else.
\* The resource imported is one the host has just refreshed; prior keeps
\* that refreshed record, which no handler reads before the next Update.
Import ==
  /\ op \in {"Create", "Read", "Update"}
  /\ res = "ok"
  /\ \E form \in {"canon", "upper"} :
       d' = [EmptyD EXCEPT !.id = <<form, ParseUUID(d.id)>>]
  /\ prior' = d
  /\ op' = "Import"
  /\ res' = ""
  /\ reqs' = <<>>
  /\ fresh' = "imported"
  /\ UNCHANGED <<dsvars, networks, ag, groups>>

\* ------------------------------------------------- outside the provider
\* the remote network is deleted by someone else
ExternalDelete ==
  /\ \E u \in DOMAIN networks : networks' = RemoteDelete(networks, u)
  /\ op' = IF op = "PlanUpdate" THEN op ELSE "External"
  /\ res' = IF op = "PlanUpdate" THEN res ELSE ""
  /\ reqs' = <<>>
  /\ fresh' = "none"
  /\ UNCHANGED <<dsvars, d, prior, ag, groups>>

\* the tags of the remote network are changed by someone else
ExternalChange ==
  /\ op # "PlanUpdate"
  /\ \E u \in DOMAIN networks, t \in TagMaps :
       /\ t # networks[u].tags
       /\ networks' = [networks EXCEPT ![u].tags = t]
  /\ op' = "External"
  /\ res' = ""
  /\ reqs' = <<>>
  /\ fresh' = "none"
  /\ UNCHANGED <<dsvars, d, prior, ag, groups>>

\* ====================================================== exoscale_affinity
AgReturn(o, a, grps, r, q) ==
  /\ ag' = a
  /\ groups' = grps
  /\ op' = o
  /\ res' = r
  /\ reqs' = q
  /\ fresh' = NextFresh(o, r)
  /\ UNCHANGED <<dsvars, d, prior, networks>>

\* what the remote may answer to a get of group u
GetAnswers(grps, u) ==
  IF u \in DOMAIN grps THEN {"found", "apierr"} ELSE {"notfound", "apierr"}

\* what the remote may answer to a delete of group u
AgDeleteAnswers(grps, u) ==
  IF u \in DOMAIN grps THEN {"ok", "apierr"} ELSE {"notfound", "apierr"}

\* handleNotFound: a not-found error clears the identifier and is dropped,
\* any other error is returned
handleNotFound(a, err) ==
  IF err = "notfound" THEN [ag |-> [a EXCEPT !.id = NoId], res |-> "ok"]
  ELSE [ag |-> a, res |-> err]

\* resourceAffinityApply
resourceAffinityApply(a, g) ==
  [a EXCEPT !.name = g.name, !.description = g.description, !.type = g.type,
            !.virtual_machine_ids = {UUIDString(v) : v \in g.vmIDs}]

\* resourceAffinityRead
resourceAffinityRead(a, grps, ans, q) ==
  LET u == ParseUUID(a.id)
      q1 == Append(q, Req("getAffinityGroup", 0, ans)) IN
  IF u = 0 THEN [ag |-> a, res |-> "errUUID", reqs |-> q]
  ELSE IF ans # "found"
    THEN [ag |-> handleNotFound(a, ans).ag, res |-> handleNotFound(a, ans).res,
          reqs |-> q1]
  ELSE [ag |-> resourceAffinityApply(a, grps[u]), res |-> "ok", reqs |-> q1]

\* resourceAffinityExists
resourceAffinityExists(a, grps, ans) ==
  LET u == ParseUUID(a.id)
      q1 == <<Req("getAffinityGroup", 0, ans)>>
      h == handleNotFound(a, ans) IN
  IF u = 0 THEN [ag |-> a, res |-> "errUUID", reqs |-> <<>>]
  ELSE IF ans # "found"
    THEN [ag |-> h.ag,
          res |-> IF h.res # "ok" THEN h.res
                  ELSE IF h.ag.id # NoId THEN "true" ELSE "false",
          reqs |-> q1]
  ELSE [ag |-> a, res |-> "true", reqs |-> q1]

\* resourceAffinityDelete
resourceAffinityDelete(a, grps, ans) ==
  LET u == ParseUUID(a.id) IN
  IF u = 0 THEN [ag |-> a, grps |-> grps, res |-> "errUUID", reqs |-> <<>>]
  ELSE [ag |-> a,
        grps |-> IF ans = "ok" THEN [x \in DOMAIN grps \ {u} |-> grps[x]] ELSE grps,
        res |-> ans,
        reqs |-> <<Req("deleteAffinityGroup", 0, ans)>>]

\* line 102: Create ends with Read
AffinityCreatePostRead(a, grps, ans, q) == resourceAffinityRead(a, grps, ans, q)

\* the host builds the record of a new group from the configuration
PlanAffinityCreate ==
  /\ ag.id = NoId
  /\ d.id = NoId
  /\ op \notin {"PlanCreate", "PlanAffinityCreate"}
  /\ \E n \in AgNames, dsc \in DisplayTexts :
       ag' = [id |-> NoId, name |-> n, description |-> dsc,
              type |-> "host anti-affinity", virtual_machine_ids |-> {}]
  /\ op' = "PlanAffinityCreate"
  /\ res' = ""
  /\ reqs' = <<>>
  /\ fresh' = "none"
  /\ d' = EmptyD
  /\ UNCHANGED <<dsvars, prior, networks, groups>>

\* resourceAffinityCreate
AffinityCreate ==
  /\ op = "PlanAffinityCreate"
  /\ \E cr \in {0} \cup (UUIDs \ DOMAIN groups) :
       LET q1 == <<Req("createAffinityGroup", 0, IF cr = 0 THEN "apierr" ELSE "ok")>>
           a2 == [ag EXCEPT !.id = UUIDString(cr)]
           g2 == [x \in DOMAIN groups \cup {cr} |->
                    IF x = cr THEN [name |-> ag.name, description |-> ag.description,
                                    type |-> ag.type, vmIDs |-> {}]
                    ELSE groups[x]] IN
       IF cr = 0 THEN AgReturn("AffinityCreate", ag, groups, "apierr", q1)
       ELSE \E ans \in GetAnswers(g2, cr) :
              LET r == AffinityCreatePostRead(a2, g2, ans, q1) IN
              AgReturn("AffinityCreate", r.ag, g2, r.res, r.reqs)

AffinityRead ==
  /\ ag.id # NoId
  /\ op # "PlanAffinityCreate"
  /\ \E ans \in GetAnswers(groups, ParseUUID(ag.id)) :
       LET r == resourceAffinityRead(ag, groups, ans, <<>>) IN
       AgReturn("AffinityRead", r.ag, groups, r.res, r.reqs)

AffinityExists ==
  /\ ag.id # NoId
  /\ op # "PlanAffinityCreate"
  /\ \E ans \in GetAnswers(groups, ParseUUID(ag.id)) :
       LET r == resourceAffinityExists(ag, groups, ans) IN
       AgReturn("AffinityExists", r.ag, groups, r.res, r.reqs)

AffinityDelete ==
  /\ ag.id # NoId
  /\ op # "PlanAffinityCreate"
  /\ \E ans \in AgDeleteAnswers(groups, ParseUUID(ag.id)) :
       LET r == resourceAffinityDelete(ag, groups, ans) IN
       \* the host drops the record of a deleted resource
       AgReturn("AffinityDelete", IF r.res = "ok" THEN EmptyAg ELSE r.ag,
                r.grps, r.res, r.reqs)

\* the remote group is deleted, or its members change, outside the provider
ExternalAffinityChange ==
  /\ op # "PlanAffinityCreate"
  /\ \E u \in DOMAIN groups :
       \/ groups' = [x \in DOMAIN groups \ {u} |-> groups[x]]
       \/ \E m \in SUBSET UUIDs :
            /\ m # groups[u].vmIDs
            /\ groups' = [groups EXCEPT ![u].vmIDs = m]
  /\ op' = "External"
  /\ res' = ""
  /\ reqs' = <<>>
  /\ fresh' = "none"
  /\ UNCHANGED <<dsvars, d, prior, networks, ag>>

\* ============================================================ data sources
DsIds == 1..MaxListing
DsNames == {"", "a", "b"}
DomainNames == {"a", "b"}

\* a listed network either has its three addresses or none of them
ListedNetworks ==
  {[id |-> i, name |-> n, displayText |-> "x",
    startIP |-> ip, endIP |-> ip, netmask |-> ip] :
     i \in DsIds, n \in DsNames, ip \in {"nil", "addr"}}

ListedDomains == {[id |-> i, unicodeName |-> n] : i \in DsIds, n \in DomainNames}

\* the listings of at most MaxListing objects with distinct identifiers
ListingsOf(S) ==
  UNION {{l \in [1..k -> S] : \A i \in 1..k, j \in 1..k : l[i].id = l[j].id => i = j} :
         k \in 0..MaxListing}

DsOut(r, rs, q) == [ds |-> r, res |-> rs, reqs |-> q]

\* -------------------------------------------------- dataSourceNetworkRead
\* the search that keeps the first network of the name and stops
RECURSIVE NetworkSearchFirstMatch(_, _, _, _, _, _)
NetworkSearchFirstMatch(l, i, byID, networkID, networkName, network) ==
  IF i > Len(l) THEN [res |-> "ok", network |-> network]
  ELSE IF byID /\ l[i].id = networkID THEN [res |-> "ok", network |-> i]
  ELSE IF l[i].name = networkName THEN [res |-> "ok", network |-> i]
  ELSE NetworkSearchFirstMatch(l, i + 1, byID, networkID, networkName, network)

\* lines 102-121: the search loop from entry i on; network is the index of
\* the match kept so far, 0 for none
RECURSIVE NetworkSearch(_, _, _, _, _, _)
NetworkSearch(l, i, byID, networkID, networkName, network) ==
  IF i > Len(l) THEN [res |-> "ok", network |-> network]
  ELSE IF byID /\ l[i].id = networkID THEN [res |-> "ok", network |-> i]
  ELSE IF l[i].name = networkName
    THEN IF network # 0 THEN [res |-> "errMultiple", network |-> 0]
         ELSE NetworkSearch(l, i + 1, byID, networkID, networkName, i)
  ELSE NetworkSearch(l, i + 1, byID, networkID, networkName, network)

\* lines 126-152: the found network is written to the record
dataSourceNetworkApply(r, n) ==
  LET all == n.startIP # "nil" /\ n.endIP # "nil" /\ n.netmask # "nil" IN
  [r EXCEPT !.rid = UUIDString(n.id),
            !.id = UUIDString(n.id),
            !.name = n.name,
            !.description = n.displayText,
            !.start_ip = IF all THEN IPString(n.startIP) ELSE "",
            !.end_ip = IF all THEN IPString(n.endIP) ELSE "",
            !.netmask = IF all THEN IPString(n.netmask) ELSE ""]

\* lz and la are the remote's answers to ListZones and to ListNetworks
dataSourceNetworkRead(r, l, lz, la) ==
  LET byName == r.name # ""
      byID == r.id # NoId
      networkName == IF byName THEN r.name ELSE ""
      networkID == ParseUUID(r.id)
      zone == getZoneByName(r.zone, lz)
      q1 == <<Req("listZones", 0, lz)>>
      q2 == Append(q1, Req("listNetworks", zone.id, la))
      f == NetworkSearch(l, 1, byID, networkID, networkName, 0) IN
  IF zone.res # "ok" THEN DsOut(r, zone.res, q1)
  ELSE IF ~byName /\ ~byID THEN DsOut(r, "errNeither", q1)
  ELSE IF byID /\ networkID = 0 THEN DsOut(r, "errInvalidId", q1)
  ELSE IF la # "ok" THEN DsOut(r, "errListing", q2)
  ELSE IF f.res # "ok" THEN DsOut(r, f.res, q2)
  ELSE IF f.network = 0 THEN DsOut(r, "errNotFound", q2)
  ELSE DsOut(dataSourceNetworkApply(r, l[f.network]), "ok", q2)

DataSourceNetworkRead ==
  /\ op = "PlanDataSourceNetwork"
  /\ \E lz \in ListZonesAnswers, la \in {"ok", "apierr"} :
       LET out == dataSourceNetworkRead(ds, listing, lz, la) IN
       /\ ds' = out.ds
       /\ res' = out.res
       /\ reqs' = out.reqs
  /\ op' = "DataSourceNetworkRead"
  /\ UNCHANGED <<d, prior, networks, fresh, ag, groups, dsQuery, listing, domains>>

\* --------------------------------------------------- dataSourceDomainRead
\* lines 46-52: the index of the domain the loop selects, 0 for none
RECURSIVE DomainSearch(_, _, _)
DomainSearch(l, i, domainName) ==
  IF i > Len(l) THEN 0
  ELSE IF l[i].unicodeName = domainName THEN i
  ELSE DomainSearch(l, i + 1, domainName)

\* la is the remote's answer to ListDNSDomains
dataSourceDomainRead(r, l, la) ==
  LET q1 == <<Req("listDNSDomains", 0, la)>>
      domain == DomainSearch(l, 1, r.name) IN
  IF la # "ok" THEN DsOut(r, "errListing", q1)
  ELSE IF domain = 0 THEN DsOut(r, "errNotFound", q1)
  ELSE DsOut([r EXCEPT !.rid = UUIDString(l[domain].id),
                       !.name = l[domain].unicodeName], "ok", q1)

DataSourceDomainRead ==
  /\ op = "PlanDataSourceDomain"
  /\ \E la \in {"ok", "apierr"} :
       LET out == dataSourceDomainRead(ds, domains, la) IN
       /\ ds' = out.ds
       /\ res' = out.res
       /\ reqs' = out.reqs
  /\ op' = "DataSourceDomainRead"
  /\ UNCHANGED <<d, prior, networks, fresh, ag, groups, dsQuery, listing, domains>>

\* the configurations of the network data source: zone is required (the
\* name of the first zone, or a name no zone has); id and name conflict
\* with each other
NetworkQueries ==
  {q \in [kind : {"network"}, zone : {0, 1},
          id : {NoId, BadId, <<"upper", 1>>} \cup {UUIDString(i) : i \in DsIds},
          name : DsNames] :
     q.id = NoId \/ q.name = ""}

DomainQueries ==
  [kind : {"domain"}, zone : {0}, id : {NoId}, name : DomainNames]

\* a data source is read once, against a remote the host does not control
InitDS ==
  /\ d = EmptyD
  /\ prior = EmptyD
  /\ networks = << >>
  /\ ag = EmptyAg
  /\ groups = << >>
  /\ res = ""
  /\ reqs = <<>>
  /\ fresh = "none"
  /\ \/ /\ op = "PlanDataSourceNetwork"
        /\ dsQuery \in NetworkQueries
        /\ listing \in ListingsOf(ListedNetworks)
        /\ domains = <<>>
     \/ /\ op = "PlanDataSourceDomain"
        /\ dsQuery \in DomainQueries
        /\ listing = <<>>
        /\ domains \in ListingsOf(ListedDomains)
  /\ ds = [EmptyDs EXCEPT !.zone = dsQuery.zone, !.id = dsQuery.id,
                          !.name = dsQuery.name]

NextDS == DataSourceNetworkRead \/ DataSourceDomainRead

SpecDS == InitDS /\ [][NextDS]_vars

Init ==
  /\ d = EmptyD
  /\ prior = EmptyD
  /\ networks = << >>
  /\ op = "Init"
  /\ res = ""
  /\ reqs = <<>>
  /\ fresh = "none"
  /\ ag = EmptyAg
  /\ groups = << >>
  /\ dsQuery = NoQuery
  /\ ds = EmptyDs
  /\ listing = <<>>
  /\ domains = <<>>

Next ==
  \/ PlanCreate \/ Create \/ Read \/ Exists
  \/ PlanUpdate \/ Update \/ Delete \/ Import
  \/ ExternalDelete \/ ExternalChange
  \/ PlanAffinityCreate \/ AffinityCreate \/ AffinityRead \/ AffinityExists
  \/ AffinityDelete \/ ExternalAffinityChange

Spec == Init /\ [][Next]_vars

\* ------------------------------------------------ Update of a tagged network
\* the tags a, b and c of a network whose tags are updated
PatchTags == {<<"a", "1">>, <<"b", "2">>, <<"b", "3">>, <<"c", "4">>}
PatchTagMaps == {t \in SUBSET PatchTags : \A p \in t, r \in t : p[1] = r[1] => p = r}

\* The host has refreshed the record of an existing network, whose tags are
\* old, and hands Update the record with the tags new.
InitTags ==
  /\ \E old \in PatchTagMaps, new \in PatchTagMaps, dt \in {"a", "x"} :
       /\ old # new
       /\ prior = [id |-> UUIDString(1), name |-> "a", display_text |-> "a",
                   zone |-> 1, start_ip |-> "", end_ip |-> "", netmask |-> "",
                   tags |-> old]
       /\ d = [prior EXCEPT !.tags = new, !.display_text = dt]
       /\ networks = [u \in {1} |->
                        [name |-> "a", displayText |-> "a", zone |-> 1,
                         startIP |-> "nil", endIP |-> "nil", netmask |-> "nil",
                         tags |-> old]]
  /\ op = "PlanUpdate"
  /\ res = ""
  /\ reqs = <<>>
  /\ fresh = "none"
  /\ ag = EmptyAg
  /\ groups = << >>
  /\ dsQuery = NoQuery
  /\ ds = EmptyDs
  /\ listing = <<>>
  /\ domains = <<>>

NextTags == Update

SpecTags == InitTags /\ [][NextTags]_vars

\* ================================================================= claims
HasRequest(q, t) == \E i \in 1..Len(q) : q[i].type = t
CountRequests(q, t) == Cardinality({i \in 1..Len(q) : q[i].type = t})

\* the address attributes of the record are inconsistent: exactly one of
\* start_ip / end_ip, or both without a netmask
InconsistentRange(dd) ==
  \/ (dd.start_ip = "") # (dd.end_ip = "")
  \/ dd.start_ip # "" /\ dd.end_ip # "" /\ dd.netmask = ""

\* C1: a Create whose record has exactly one of start_ip / end_ip, or both
\* without a netmask, returns an error, issues no create-network request,
\* leaves the remote alone and leaves the identifier empty; with any other
\* combination the range check passes: no range error is returned and, once
\* the zone is resolved, the create-network request is issued.
C1_CreateRejectsInconsistentRange ==
  [][(op = "PlanCreate" /\ op' = "Create") =>
       IF InconsistentRange(d)
         THEN /\ res' # "ok"
              /\ ~HasRequest(reqs', "createNetwork")
              /\ d'.id = NoId
              /\ networks' = networks
         ELSE /\ res' \notin {"errStartEnd", "errNetmask"}
              /\ (reqs'[1].ans = "ok" /\ d.zone \in Zones)
                   => HasRequest(reqs', "createNetwork")]_vars

\* a Create has rejected a range without netmask
C1_Witness == op = "Create" /\ res = "errNetmask" /\ d.id = NoId

\* C2: when the network was created and the tag request then failed, Create
\* has issued exactly one delete request, right after the tag request, for
\* the network the record names, and returns the error of the tag request,
\* whether the delete succeeded (the network is gone) or failed (it stays).
C2_TagFailureCleanup ==
  (op = "Create" /\ \E i \in 1..Len(reqs) :
                      reqs[i].type = "createTags" /\ reqs[i].ans # "ok")
    => /\ res = "tagerr"
       /\ CountRequests(reqs, "deleteNetwork") = 1
       /\ reqs[Len(reqs)].type = "deleteNetwork"
       /\ reqs[Len(reqs) - 1].type = "createTags"
       /\ CountRequests(reqs, "createNetwork") = 1
       /\ (reqs[Len(reqs)].ans = "ok") <=> (ParseUUID(d.id) \notin DOMAIN networks)

\* the tag request failed and so did the cleanup's delete request
C2_Witness ==
  /\ op = "Create"
  /\ res = "tagerr"
  /\ reqs[Len(reqs)] = Req("deleteNetwork", 0, "apierr")
  /\ ParseUUID(d.id) \in DOMAIN networks

\* C3: an Update whose start_ip or end_ip goes from a non-empty old value to
\* an empty new value returns an error, issues no request at all (no tag
\* request, no update-network request, no re-read) and changes nothing
\* remotely.
C3_UpdateRejectsClearedRange ==
  [][(/\ op = "PlanUpdate"
      /\ op' = "Update"
      /\ \/ prior.start_ip # "" /\ d.start_ip = ""
         \/ prior.end_ip # "" /\ d.end_ip = "")
       => /\ res' = "errCannotEmpty"
          /\ reqs' = <<>>
          /\ networks' = networks]_vars

\* an Update that would clear the range while it changes the tags was rejected
C3_Witness ==
  /\ op = "Update"
  /\ res = "errCannotEmpty"
  /\ d.end_ip = ""
  /\ ParseUUID(d.id) \in DOMAIN networks
  /\ d.tags # networks[ParseUUID(d.id)].tags

\* the record's network is in no zone
NoZoneHolds(dd, nets) == ParseUUID(dd.id) \notin DOMAIN nets

\* the zone listing succeeded and every zone queried reported absence: an
\* empty list, a parameter error or a not-found error
OnlyAbsenceReports(q) ==
  /\ Len(q) >= 2
  /\ q[1].ans = "ok"
  /\ \A i \in 2..Len(q) :
       q[i].type = "listNetworks" /\ q[i].ans \in {"empty", "param", "notfound"}

\* C4: when no zone holds the record's network and the zones report that
\* absence (empty list, parameter error or not-found error), Read returns
\* NotFound and Exists returns false without error.
C4_AbsentNetworkNotFound ==
  /\ (op = "Read" /\ NoZoneHolds(d, networks) /\ OnlyAbsenceReports(reqs))
       => res = "notfound"
  /\ (op = "Exists" /\ NoZoneHolds(d, networks) /\ OnlyAbsenceReports(reqs))
       => res = "false"

\* the entries of listing l that carry the name n
Named(l, n) == {i \in 1..Len(l) : l[i].name = n}
NamedDomains(l, n) == {i \in 1..Len(l) : l[i].unicodeName = n}

\* every request of the log was answered without error
AllAnswered(q) == \A i \in 1..Len(q) : q[i].ans = "ok"

\* C5: a network data source read by name, once the zone is resolved and
\* the networks are listed: two or more networks of the name give the
\* multiple-networks error and no identifier, none gives not-found, exactly
\* one gives success with that network's identifier, in any listing order.
C5_NetworkLookupByName ==
  (/\ op = "DataSourceNetworkRead"
   /\ dsQuery.name # ""
   /\ dsQuery.zone \in Zones
   /\ Len(reqs) = 2
   /\ AllAnswered(reqs))
    => LET m == Named(listing, dsQuery.name) IN
       /\ Cardinality(m) >= 2 => (res = "errMultiple" /\ ds.rid = NoId)
       /\ Cardinality(m) = 0 => (res = "errNotFound" /\ ds.rid = NoId)
       /\ Cardinality(m) = 1 =>
            (res = "ok" /\ \A i \in m : ds.rid = UUIDString(listing[i].id))

\* the one network of the name was found behind a network of another name
C5_Witness ==
  /\ op = "DataSourceNetworkRead"
  /\ res = "ok"
  /\ dsQuery.name # ""
  /\ Len(listing) = 3
  /\ Named(listing, dsQuery.name) = {3}
  /\ ds.rid = UUIDString(listing[3].id)

\* C6: a domain data source read, once the domains are listed: more than
\* one domain of the name gives an ambiguity error and no identifier, none
\* gives not-found and no identifier, exactly one gives its identifier.
C6_DomainLookupByName ==
  (op = "DataSourceDomainRead" /\ AllAnswered(reqs))
    => LET m == NamedDomains(domains, dsQuery.name) IN
       /\ Cardinality(m) >= 2 => (res # "ok" /\ ds.rid = NoId)
       /\ Cardinality(m) = 0 => (res = "errNotFound" /\ ds.rid = NoId)
       /\ Cardinality(m) = 1 =>
            (res = "ok" /\ \A i \in m : ds.rid = UUIDString(domains[i].id))

\* C7: a Delete (network, anti-affinity group) whose delete request is
\* answered with a not-found error returns success.
C7_DeleteOfAbsentSucceeds ==
  (/\ op \in {"Delete", "AffinityDelete"}
   /\ reqs # <<>>
   /\ reqs[Len(reqs)].ans = "notfound")
    => res = "ok"

\* C8: after a successful Read, also the one that ends Create and Update,
\* the record's name, display_text, zone and tags equal the remote
\* network's, and each of start_ip, end_ip and netmask is non-empty in the
\* record exactly when the remote network has that field, with its value.
C8_RecordMirrorsRemote ==
  (op \in {"Read", "Create", "Update"} /\ res = "ok")
    => /\ ParseUUID(d.id) \in DOMAIN networks
       /\ LET n == networks[ParseUUID(d.id)] IN
          /\ d.name = n.name
          /\ d.display_text = n.displayText
          /\ d.zone = n.zone
          /\ d.tags = n.tags
          /\ (d.start_ip # "") <=> (n.startIP # "nil")
          /\ (d.end_ip # "") <=> (n.endIP # "nil")
          /\ (d.netmask # "") <=> (n.netmask # "nil")
          /\ d.start_ip # "" => d.start_ip = IPString(n.startIP)
          /\ d.end_ip # "" => d.end_ip = IPString(n.endIP)
          /\ d.netmask # "" => d.netmask = IPString(n.netmask)

\* C9: a successful Read that directly follows a successful Create, with
\* no step of anyone else in between, leaves the record as Create left it
\* (network and anti-affinity group).
C9_ReadAfterCreateConverges ==
  [][/\ (op = "Create" /\ res = "ok" /\ op' = "Read" /\ res' = "ok") => d' = d
     /\ (op = "AffinityCreate" /\ res = "ok" /\ op' = "AffinityRead" /\ res' = "ok")
          => ag' = ag]_vars

\* a Read has succeeded directly after a successful Create
C9_Witness ==
  /\ op = "Read"
  /\ res = "ok"
  /\ fresh = "read"
  /\ d.display_text = "a"
  /\ d.tags # {}

\* C10: a successful Update leaves the record's identifier as it was.
C10_UpdateKeepsIdentifier ==
  [][(op = "PlanUpdate" /\ op' = "Update" /\ res' = "ok") => d'.id = d.id]_vars

\* an Update that changed the tags and the network has succeeded
C10_Witness ==
  /\ op = "Update"
  /\ res = "ok"
  /\ HasRequest(reqs, "updateTags")
  /\ HasRequest(reqs, "updateNetwork")
  /\ d.id # NoId

\* the attributes of a record other than its identifier
Attributes(dd) == [dd EXCEPT !.id = NoId]

\* C11: a successful Read of an imported record, which held nothing but the
\* identifier of an existing network, leaves the zone, name, display_text,
\* start_ip, end_ip, netmask and tags that the Read ending the Create or
\* Update of that network (or a plain Read of it) had left.
C11_ImportRoundTrip ==
  [][(op = "Import" /\ op' = "Read" /\ res' = "ok")
       => /\ Attributes(d') = Attributes(prior)
          /\ d'.id = UUIDString(ParseUUID(d.id))]_vars

\* a record imported under the upper-case spelling of the identifier was
\* read back with its range, its tags and its zone
C11_Witness ==
  /\ op = "Read"
  /\ res = "ok"
  /\ fresh = "importread"
  /\ d.netmask # ""
  /\ d.tags # {}
  /\ d.zone = NumZones
  /\ Len(reqs) = NumZones + 1

\* C12: a network data source read with neither name nor id returns the
\* error 'either name or id must be specified' whatever the zone is, and
\* has issued no request when it returns it.
C12_NeitherNameNorIdFirst ==
  (op = "DataSourceNetworkRead" /\ dsQuery.id = NoId /\ dsQuery.name = "")
    => res = "errNeither" /\ reqs = <<>>

\* the listed networks that have the queried identifier
WithId(l, s) == {i \in 1..Len(l) : l[i].id = ParseUUID(s)}

\* C18: a network data source read by id, once the zone is resolved and the
\* networks are listed, never reports multiple networks, succeeds only with
\* the network of the requested id, and reports not-found when no listed
\* network has that id, whatever the names of the listed networks are.
C18_LookupByIdIgnoresNames ==
  (/\ op = "DataSourceNetworkRead"
   /\ dsQuery.id # NoId
   /\ Len(reqs) = 2
   /\ AllAnswered(reqs))
    => /\ res # "errMultiple"
       /\ res = "ok" => /\ WithId(listing, dsQuery.id) # {}
                        /\ ds.rid = UUIDString(ParseUUID(dsQuery.id))
       /\ WithId(listing, dsQuery.id) = {} => res = "errNotFound"

\* the requests that change the network were all issued and answered
Patched(q) ==
  /\ HasRequest(q, "updateNetwork")
  /\ \A i \in 1..Len(q) :
       q[i].type \in {"createTags", "updateTags", "updateNetwork"} => q[i].ans = "ok"

TagRequestTypes == {"createTags", "updateTags"}
ReadRequestTypes == {"listZones", "listNetworks"}

\* C14 as stated: in an Update that passes the replacement check, no tag
\* request is issued before the update-network request.
C14_UpdateNetworkFirst ==
  [][(op = "PlanUpdate" /\ op' = "Update") =>
       \A i \in 1..Len(reqs') :
         reqs'[i].type \in TagRequestTypes
           => \E j \in 1..(i - 1) : reqs'[j].type = "updateNetwork"]_vars

\* C14 amended: in an Update that passes the replacement check, every tag
\* request is issued before the one update-network request, and the network
\* is re-read only after the update-network request, hence all requests
\* before it, succeeded.
C14_TagRequestsFirst ==
  [][(op = "PlanUpdate" /\ op' = "Update") =>
       /\ CountRequests(reqs', "updateNetwork") <= 1
       /\ \A i \in 1..Len(reqs'), j \in 1..Len(reqs') :
            /\ (reqs'[i].type \in TagRequestTypes /\ reqs'[j].type = "updateNetwork")
                 => i < j
            /\ (reqs'[i].type \notin ReadRequestTypes /\ reqs'[j].type \in ReadRequestTypes)
                 => i < j /\ reqs'[i].ans = "ok"
       /\ HasRequest(reqs', "listZones") => HasRequest(reqs', "updateNetwork")
       /\ res' = "ok" => HasRequest(reqs', "listNetworks")]_vars

\* an Update has issued a tag request, then the update-network request,
\* then re-read the network
C14_Witness ==
  /\ op = "Update"
  /\ res = "ok"
  /\ Len(reqs) >= 4
  /\ reqs[1].type \in TagRequestTypes
  /\ reqs[2].type = "updateNetwork"
  /\ reqs[3].type = "listZones"
  /\ reqs[Len(reqs)] = Req("listNetworks", d.zone, "found")

\* the zone listing succeeded and every zone queried answered with a list
\* of networks (with or without the network) or with a parameter error
ListsAndParamErrors(q) ==
  /\ Len(q) >= 1
  /\ q[1] = Req("listZones", 0, "ok")
  /\ \A i \in 2..Len(q) : q[i].ans \in {"found", "empty", "param"}

\* C15: in a Read or Exists whose zones answer with lists or parameter
\* errors, the zones are queried once each in listing order; a zone that
\* answers with a parameter error or an empty list is passed over; the
\* first zone whose list has the network ends the search with success and
\* no zone is queried after it; when every zone was queried without a
\* match the result is NotFound (Exists: false).
C15_ZoneSearchOrder ==
  (op \in {"Read", "Exists"} /\ ListsAndParamErrors(reqs))
    => /\ \A i \in 2..Len(reqs) :
            reqs[i].type = "listNetworks" /\ reqs[i].zone = i - 1
       /\ \A i \in 2..(Len(reqs) - 1) : reqs[i].ans # "found"
       /\ IF Len(reqs) >= 2 /\ reqs[Len(reqs)].ans = "found"
            THEN /\ res = (IF op = "Read" THEN "ok" ELSE "true")
                 /\ Holds(networks, ParseUUID(d.id), reqs[Len(reqs)].zone)
            ELSE /\ Len(reqs) = NumZones + 1
                 /\ res = (IF op = "Read" THEN "notfound" ELSE "false")

\* a Read has passed over a zone that answered with a parameter error and
\* found the network in the next zone
C15_Witness ==
  /\ op = "Read"
  /\ res = "ok"
  /\ Len(reqs) = 3
  /\ reqs[2] = Req("listNetworks", 1, "param")
  /\ reqs[3] = Req("listNetworks", 2, "found")

\* C16: a Create that returns a range validation error has issued no
\* request at all, the zone resolution's included, and a Create whose range
\* is inconsistent returns a range validation error.
C16_ValidationBeforeAnyRequest ==
  [][(op = "PlanCreate" /\ op' = "Create" /\ InconsistentRange(d))
       => /\ res' \in {"errStartEnd", "errNetmask"}
          /\ reqs' = <<>>]_vars

\* the last request of the log is a zone's answer to ListNetworks that is an
\* error other than a parameter error and a not-found error response
OtherErrorFromZone(q) ==
  /\ Len(q) >= 2
  /\ q[Len(q)].type = "listNetworks"
  /\ q[Len(q)].ans \in {"apierr", "neterr"}

\* C17: a Read or Exists whose search meets a zone that fails with an error
\* other than a parameter error or a not-found error response (an error
\* response of another code, or an error that is no error response, such as
\* the timeout of the call) returns that error to the host: it does not end
\* in a crash or with another result.
C17_OtherErrorsReturned ==
  (op \in {"Read", "Exists"} /\ OtherErrorFromZone(reqs))
    => res = reqs[Len(reqs)].ans

\* C19: after a Create that returned an error, the record's identifier is
\* empty unless the network it names exists; after a failed tag request
\* whose cleanup deleted the network, it is empty.
C19_NoDanglingIdentifier ==
  (op = "Create" /\ res # "ok")
    => (d.id # NoId => ParseUUID(d.id) \in DOMAIN networks)

\* C20: an Update whose new attributes have exactly one of start_ip /
\* end_ip, or both without a netmask, returns an error and issues no
\* request.
C20_UpdateValidatesRange ==
  [][(op = "PlanUpdate" /\ op' = "Update" /\ InconsistentRange(d))
       => /\ res' # "ok"
          /\ reqs' = <<>>]_vars

====
